---- MODULE Spec2Model ----
(***************************************************************************)
(* scripts/build-ffmpeg.py: the build pipeline that fetches, builds and    *)
(* installs FFmpeg's dependencies into a destination prefix and packs the  *)
(* result into a platform-tagged archive.                                  *)
(*                                                                         *)
(* The script is one straight-line program.  A behaviour of the model is   *)
(* a series of invocations of the script on one machine: the file system   *)
(* (source/, build/, the destination prefix, the output archive) lives     *)
(* across invocations, everything else starts afresh.  Every external      *)
(* command the script runs through run() is one step that either returns   *)
(* zero or not; an interrupt during a command is a non-zero return.        *)
(* The model covers invocations that pass a destination prefix.            *)
(***************************************************************************)
EXTENDS Integers, Sequences, FiniteSets, TLC

\* Number of invocations of the script in one behaviour.
MaxRuns == 2

(***************************************************************************)
(* The machine and the command line.                                       *)
(***************************************************************************)
\* platform.system().  The script tests it for "Linux" and "Darwin" only; on
\* any other system get_platform() accepts it runs as on Linux without
\* cibuildwheel.
Systems == {"Linux", "Darwin"}

\* The packages for which a file patches/<package>.patch exists; every
\* other package has none.
PatchFiles == {"ffmpeg"}

build_dir == "build"

source_dir == "source"

(***************************************************************************)
(* The packages, in the order of the script.                               *)
(***************************************************************************)
BuildTools == <<"gperf", "nasm">>

Libraries ==
    <<"xz", "gmp", "png", "xml2", "unistring", "gettext", "freetype",
      "fontconfig", "fribidi", "nettle", "gnutls">>

Codecs ==
    <<"aom", "ass", "bluray", "dav1d", "lame", "ogg", "opencore-amr",
      "openjpeg", "opus", "speex", "twolame", "vorbis", "theora", "wavpack",
      "x264", "x265", "xvid">>

\* A plausible slip: the codec section placed ahead of the library section.
BuildSequence_codecsFirst == BuildTools \o Codecs \o Libraries \o <<"ffmpeg">>

BuildSequence == BuildTools \o Libraries \o Codecs \o <<"ffmpeg">>

NPackages == Len(BuildSequence)

Packages == {BuildSequence[i] : i \in 1..NPackages}

\* The url argument of each extract() call, as url.split("/").
url ==
    "gperf" :> <<"http:", "", "ftp.gnu.org", "pub", "gnu", "gperf", "gperf-3.1.tar.gz">> @@
    "nasm" :> <<"https:", "", "www.nasm.us", "pub", "nasm", "releasebuilds", "2.14.02", "nasm-2.14.02.tar.bz2">> @@
    "xz" :> <<"https:", "", "tukaani.org", "xz", "xz-5.2.5.tar.bz2">> @@
    "gmp" :> <<"https:", "", "gmplib.org", "download", "gmp", "gmp-6.2.0.tar.xz">> @@
    "png" :> <<"http:", "", "deb.debian.org", "debian", "pool", "main", "libp", "libpng1.6", "libpng1.6_1.6.37.orig.tar.gz">> @@
    "xml2" :> <<"ftp:", "", "xmlsoft.org", "libxml2", "libxml2-sources-2.9.10.tar.gz">> @@
    "unistring" :> <<"https:", "", "ftp.gnu.org", "gnu", "libunistring", "libunistring-0.9.10.tar.gz">> @@
    "gettext" :> <<"https:", "", "ftp.gnu.org", "pub", "gnu", "gettext", "gettext-0.20.2.tar.gz">> @@
    "freetype" :> <<"https:", "", "download.savannah.gnu.org", "releases", "freetype", "freetype-2.10.1.tar.gz">> @@
    "fontconfig" :> <<"https:", "", "www.freedesktop.org", "software", "fontconfig", "release", "fontconfig-2.13.1.tar.bz2">> @@
    "fribidi" :> <<"https:", "", "github.com", "fribidi", "fribidi", "releases", "download", "v1.0.9", "fribidi-1.0.9.tar.xz">> @@
    "nettle" :> <<"https:", "", "ftp.gnu.org", "gnu", "nettle", "nettle-3.6.tar.gz">> @@
    "gnutls" :> <<"https:", "", "www.gnupg.org", "ftp", "gcrypt", "gnutls", "v3.6", "gnutls-3.6.15.tar.xz">> @@
    "aom" :> <<"https:", "", "aomedia.googlesource.com", "aom", "+archive", "a6091ebb8a7da245373e56a005f2bb95be064e03.tar.gz">> @@
    "ass" :> <<"https:", "", "github.com", "libass", "libass", "releases", "download", "0.14.0", "libass-0.14.0.tar.gz">> @@
    "bluray" :> <<"https:", "", "download.videolan.org", "pub", "videolan", "libbluray", "1.1.2", "libbluray-1.1.2.tar.bz2">> @@
    "dav1d" :> <<"https:", "", "code.videolan.org", "videolan", "dav1d", "-", "archive", "0.9.2", "dav1d-0.9.2.tar.bz2">> @@
    "lame" :> <<"http:", "", "deb.debian.org", "debian", "pool", "main", "l", "lame", "lame_3.100.orig.tar.gz">> @@
    "ogg" :> <<"http:", "", "downloads.xiph.org", "releases", "ogg", "libogg-1.3.5.tar.gz">> @@
    "opencore-amr" :> <<"http:", "", "deb.debian.org", "debian", "pool", "main", "o", "opencore-amr", "opencore-amr_0.1.5.orig.tar.gz">> @@
    "openjpeg" :> <<"https:", "", "github.com", "uclouvain", "openjpeg", "archive", "v2.3.1.tar.gz">> @@
    "opus" :> <<"https:", "", "archive.mozilla.org", "pub", "opus", "opus-1.3.1.tar.gz">> @@
    "speex" :> <<"http:", "", "downloads.xiph.org", "releases", "speex", "speex-1.2.0.tar.gz">> @@
    "twolame" :> <<"http:", "", "deb.debian.org", "debian", "pool", "main", "t", "twolame", "twolame_0.4.0.orig.tar.gz">> @@
    "vorbis" :> <<"http:", "", "downloads.xiph.org", "releases", "vorbis", "libvorbis-1.3.6.tar.gz">> @@
    "theora" :> <<"http:", "", "downloads.xiph.org", "releases", "theora", "libtheora-1.1.1.tar.gz">> @@
    "wavpack" :> <<"http:", "", "www.wavpack.com", "wavpack-5.3.0.tar.bz2">> @@
    "x264" :> <<"https:", "", "code.videolan.org", "videolan", "x264", "-", "archive", "master", "x264-master.tar.bz2">> @@
    "x265" :> <<"http:", "", "ftp.videolan.org", "pub", "videolan", "x265", "x265_3.2.1.tar.gz">> @@
    "xvid" :> <<"https:", "", "downloads.xvid.com", "downloads", "xvidcore-1.3.7.tar.gz">> @@
    "ffmpeg" :> <<"https:", "", "ffmpeg.org", "releases", "ffmpeg-4.3.2.tar.gz">>

\* tarball = os.path.join(source_dir, url.split("/")[-1]): the file name.
tarball(package) == url[package][Len(url[package])]

Tarballs == {tarball(p) : p \in Packages}

VARIABLES
    system,            \* platform.system()
    cibuildwheel,      \* os.environ.get("CIBUILDWHEEL") == "1"
    dest_dir,          \* sys.argv[1]
    patches,           \* packages with a file patches/<package>.patch
    args,              \* sys.argv[2:], the arguments after the prefix
    inherited,         \* os.environ as the caller hands it to each invocation
    environ,           \* os.environ of the running invocation
    cwd,               \* os.getcwd(), as path components below the launch directory
    pc,                \* the statement the script is at; "idle", "done": not running
    blk,               \* index in BuildSequence of the package block being executed
    exitcode,          \* exit status of the last finished invocation
    runs,              \* invocations so far
    srcFile,           \* source/: tarball name -> "absent" | "corrupt" | "complete"
    buildDirs,         \* build/: the per-package directories that exist
    installed,         \* destination prefix: packages whose install step completed
    archive,           \* output_tarball: "absent" | "corrupt" | "complete"
    lastCmd,           \* the last command run() executed in this invocation
    failed,            \* a command of this invocation returned non-zero
    started,           \* package blocks begun in this invocation
    done,              \* blocks whose last command returned zero in this invocation
    archiveAtStart,    \* archive as it was when this invocation was started
    installedAtStart,  \* installed as it was when this invocation was started
    prevFailed         \* the invocation before this one ended non-zero

env == <<system, cibuildwheel, dest_dir, patches, args, inherited>>

proc == <<environ, cwd>>

fs == <<srcFile, buildDirs, installed, archive>>

hist == <<lastCmd, failed, started, done, archiveAtStart, installedAtStart, prevFailed>>

vars == <<env, proc, pc, blk, exitcode, runs, fs, hist>>

NoCmd == <<"none", "none">>

\* output_dir: "/output" on Linux under cibuildwheel, abspath("output") otherwise.
output_dir == IF system = "Linux" /\ cibuildwheel THEN "/output" ELSE "output"

\* Directories the caller may pass as sys.argv[1]: a directory of its own,
\* or the directory the output archive is written to.
DestArgs == {"/tmp/vendor", output_dir}

\* The variables prepend_env is called on.
EnvNames == {"CPPFLAGS", "LDFLAGS", "PATH", "PKG_CONFIG_PATH"}

\* A string is modelled as the sequence of its pieces, + as \o, "" as << >>.
\* A variable that is not set is not in the domain of the environment.
EnvUnset == [n \in {} |-> << >>]

EnvEmpty == [n \in EnvNames |-> << >>]

EnvSet ==
    [n \in EnvNames |->
        CASE n = "CPPFLAGS" -> <<"-I/opt/include">>
          [] n = "LDFLAGS" -> <<"-L/opt/lib">>
          [] n = "PATH" -> <<"/usr/bin", ":", "/bin">>
          [] n = "PKG_CONFIG_PATH" -> <<"/usr/lib/pkgconfig">>]

\* CPPFLAGS not set, LDFLAGS set to "", the two search paths set.
EnvMixed ==
    [n \in EnvNames \ {"CPPFLAGS"} |-> IF n = "LDFLAGS" THEN << >> ELSE EnvSet[n]]

CallerEnvs == {EnvUnset, EnvEmpty, EnvSet, EnvMixed}

\* The launch directory: build_dir, source_dir, output are resolved below it.
LaunchDir == << >>

\* Before the first invocation: nothing downloaded, built or packaged.
Start ==
    /\ environ = inherited
    /\ cwd = LaunchDir
    /\ pc = "idle"
    /\ blk = 0
    /\ exitcode = 0
    /\ runs = 0
    /\ srcFile = [f \in Tarballs |-> "absent"]
    /\ buildDirs = {}
    /\ installed = {}
    /\ archive = "absent"
    /\ lastCmd = NoCmd
    /\ failed = FALSE
    /\ started = {}
    /\ done = {}
    /\ archiveAtStart = "absent"
    /\ installedAtStart = {}
    /\ prevFailed = FALSE

\* Command lines the usage test accepts: it asks for at least the prefix
\* and reads nothing after it.
CallerArgs == {<< >>, <<"--disable-gpl">>}

Init ==
    /\ system \in Systems
    /\ cibuildwheel \in BOOLEAN
    /\ dest_dir \in DestArgs
    /\ patches = PatchFiles
    /\ args = << >>
    /\ inherited = EnvMixed
    /\ Start


(***************************************************************************)
(* Control flow.                                                           *)
(***************************************************************************)
\* A plausible slip: the gettext test written against the wrong system.
Applies_gettextOnLinux(b) ==
    CASE b = "yum" -> system = "Linux" /\ cibuildwheel
      [] b = "gettext" -> system = "Linux"
      [] b = "otool" -> system = "Darwin"
      [] OTHER -> TRUE

\* The platform conditions of the script: yum under cibuildwheel on Linux,
\* gettext and otool on Darwin, everything else everywhere.
Applies(b) ==
    CASE b = "yum" -> system = "Linux" /\ cibuildwheel
      [] b = "gettext" -> system = "Darwin"
      [] b = "otool" -> system = "Darwin"
      [] OTHER -> TRUE

\* A plausible slip: the download not guarded by the existence test.
NeedDownload_always(f) == TRUE

\* if not os.path.exists(tarball)
NeedDownload(f) == srcFile[f] = "absent"

\* The first command of extract() for package block j: curl when the
\* tarball is not in source/, else mkdir and tar xf.
extract(j) ==
    IF NeedDownload(tarball(BuildSequence[j]))
    THEN <<"download", j>>
    ELSE <<"extract", j>>

\* The first statement after package block i (0: after the pip block):
\* the next package block that applies, then otool, then tar.
After(i) ==
    LET later == {j \in (i + 1)..NPackages : Applies(BuildSequence[j])}
    IN  IF later # {}
        THEN extract(CHOOSE j \in later : \A k \in later : j <= k)
        ELSE IF Applies("otool") THEN <<"otool", 0>> ELSE <<"tar", 0>>

\* A plausible slip: subprocess.run without check=True never raises.
run_nocheck(ok, nxt) == nxt

\* run(cmd): subprocess.run(cmd, check=True) raises CalledProcessError on a
\* non-zero return, and the script has no handler: control goes to nxt only
\* when the command returned zero.
run(ok, nxt) == IF ok THEN nxt ELSE <<"raise", 0>>

\* with log_group(title): try/finally around the block.  The finally clause
\* prints the outcome; an exception raised in the block goes on to the caller.
log_group(to) == to

\* One command executed through run(), continuing at nxt = <<pc, blk>>.
Exec(cmd, ok, to) ==
    /\ lastCmd' = cmd
    /\ failed' = (failed \/ ~ok)
    /\ pc' = IF to[1] = "raise" THEN "done" ELSE to[1]
    /\ blk' = to[2]
    /\ exitcode' = IF to[1] = "raise" THEN 1 ELSE 0

package == BuildSequence[blk]

InPackage == pc \in {"download", "extract", "patch", "sed", "configure", "build", "install"}

(***************************************************************************)
(* Start of an invocation: lines 109-133.                                  *)
(***************************************************************************)
\* A plausible slip: only the destination prefix reset at startup.
Removed_destOnly(d) == d = dest_dir

\* for d in [build_dir, dest_dir]: shutil.rmtree(d) if it exists.
Removed(d) == d \in {build_dir, dest_dir}

\* The first statement inside "if not os.path.exists(output_tarball)".
FirstStep == IF Applies("yum") THEN <<"yum", 0>> ELSE <<"pip", 0>>

\* A plausible slip: the old value tested against None only.
prepend_env_notNone(e, name, new, separator) ==
    IF name \in DOMAIN e
    THEN (name :> (new \o <<separator>> \o e[name])) @@ e
    ELSE (name :> new) @@ e

\* prepend_env(name, new, separator) applied to the environment e:
\* "if old" is false for None (not set) and for "".
prepend_env(e, name, new, separator) ==
    LET old == IF name \in DOMAIN e THEN e[name] ELSE << >>
    IN  IF name \in DOMAIN e /\ old # << >>
        THEN (name :> (new \o <<separator>> \o old)) @@ e
        ELSE (name :> new) @@ e

\* os.path.join(dest_dir, ...) as the pieces of the string.
join(d, sub) == <<d, "/", sub>>

\* The four calls of lines 128-133, in order.
PrependAll(e) ==
    LET e1 == prepend_env(e, "CPPFLAGS", <<"-I">> \o join(dest_dir, "include"), " ")
        e2 == prepend_env(e1, "LDFLAGS", <<"-L">> \o join(dest_dir, "lib"), " ")
        e3 == prepend_env(e2, "PATH", join(dest_dir, "bin"), ":")
    IN  prepend_env(e3, "PKG_CONFIG_PATH", join(dest_dir, "lib/pkgconfig"), ":")

Invoke ==
    /\ pc \in {"idle", "done"}
    /\ runs < MaxRuns
    /\ runs' = runs + 1
    /\ archiveAtStart' = archive
    /\ installedAtStart' = installed
    /\ prevFailed' = (pc = "done" /\ exitcode = 1)
    /\ buildDirs' = (IF Removed(build_dir) THEN {} ELSE buildDirs)
    /\ installed' = (IF Removed(dest_dir) THEN {} ELSE installed)
    /\ srcFile' = (IF Removed(source_dir) THEN [f \in Tarballs |-> "absent"] ELSE srcFile)
    /\ archive' = (IF Removed(output_dir) THEN "absent" ELSE archive)
    /\ lastCmd' = NoCmd
    /\ failed' = FALSE
    /\ started' = {}
    /\ done' = {}
    /\ exitcode' = 0
    /\ IF archive' = "absent"
       THEN /\ pc' = FirstStep[1] /\ blk' = FirstStep[2]
            /\ cwd' = <<build_dir>>
            /\ environ' = PrependAll(inherited)
       ELSE /\ pc' = "done" /\ blk' = 0
            /\ cwd' = LaunchDir
            /\ environ' = inherited
    /\ UNCHANGED env

(***************************************************************************)
(* System packages and Python build tools: lines 136-144.                  *)
(***************************************************************************)
Yum ==
    /\ pc = "yum"
    /\ \E ok \in BOOLEAN :
        /\ Exec(<<"yum", "yum">>, ok, log_group(run(ok, <<"pip", 0>>)))
        /\ done' = (IF ok THEN done \cup {"yum"} ELSE done)
    /\ UNCHANGED <<env, proc, runs, fs, started, archiveAtStart, installedAtStart, prevFailed>>

Pip ==
    /\ pc = "pip"
    /\ \E ok \in BOOLEAN :
        /\ Exec(<<"pip", "pip">>, ok, log_group(run(ok, After(0))))
        /\ done' = (IF ok THEN done \cup {"pip"} ELSE done)
    /\ UNCHANGED <<env, proc, runs, fs, started, archiveAtStart, installedAtStart, prevFailed>>

(***************************************************************************)
(* extract(package, url): lines 85-100.                                    *)
(***************************************************************************)
\* What curl -L -o tarball url leaves behind.  "ok": zero return, the file
\* complete.  "http_error": zero return (no --fail), the error page saved as
\* the file.  "error": non-zero return, no file.  "interrupted": non-zero
\* return, a truncated file.
CurlOutcomes == {"ok", "http_error", "error", "interrupted"}

CurlFile(oc) ==
    CASE oc = "ok" -> "complete"
      [] oc = "error" -> "absent"
      [] OTHER -> "corrupt"

CurlOk(oc) == oc \in {"ok", "http_error"}

\* run(["curl", "-L", "-o", tarball, url])
Download ==
    /\ pc = "download"
    /\ started' = started \cup {package}
    /\ \E oc \in CurlOutcomes :
        /\ srcFile' = [srcFile EXCEPT ![tarball(package)] = CurlFile(oc)]
        /\ Exec(<<"curl", package>>, CurlOk(oc),
                log_group(run(CurlOk(oc), <<"extract", blk>>)))
    /\ UNCHANGED <<env, proc, runs, buildDirs, installed, archive, done,
                   archiveAtStart, installedAtStart, prevFailed>>

\* The statement after extract() in the package's block: sed for lame,
\* the configure step for every other package.
AfterExtract == IF package = "lame" THEN <<"sed", blk>> ELSE <<"configure", blk>>

\* A plausible slip: the patch command not guarded by the existence test.
AfterUntar_always == <<"patch", blk>>

\* if os.path.exists(patch): the patch command, else the end of extract().
AfterUntar == IF package \in patches THEN <<"patch", blk>> ELSE AfterExtract

\* os.mkdir(path) raises FileExistsError when build/<package> exists;
\* tar xf returns zero only on a complete archive.
Extract ==
    /\ pc = "extract"
    /\ started' = started \cup {package}
    /\ IF package \in buildDirs
       THEN /\ pc' = "done" /\ blk' = 0 /\ exitcode' = 1
            /\ UNCHANGED <<buildDirs, lastCmd, failed>>
       ELSE /\ buildDirs' = buildDirs \cup {package}
            /\ \E ok \in BOOLEAN :
                /\ ok => srcFile[tarball(package)] = "complete"
                /\ Exec(<<"tar_xf", package>>, ok,
                        log_group(run(ok, AfterUntar)))
    /\ UNCHANGED <<env, proc, runs, srcFile, installed, archive, done,
                   archiveAtStart, installedAtStart, prevFailed>>

\* run(["patch", "-d", path, "-i", patch, "-p1"])
Patch ==
    /\ pc = "patch"
    /\ \E ok \in BOOLEAN :
        Exec(<<"patch", package>>, ok, log_group(run(ok, AfterExtract)))
    /\ UNCHANGED <<env, proc, runs, fs, started, done, archiveAtStart, installedAtStart, prevFailed>>

(***************************************************************************)
(* The build steps of a package block: build(), or the inline CMake and    *)
(* Meson sequences.                                                        *)
(***************************************************************************)
\* sed edits lame/include/libmp3lame.sym, a path relative to the working
\* directory: it finds the file only from the build workspace.
Sed ==
    /\ pc = "sed"
    /\ \E ok \in BOOLEAN :
        /\ ok => cwd = <<build_dir>>
        /\ Exec(<<"sed", package>>, ok, log_group(run(ok, <<"configure", blk>>)))
    /\ UNCHANGED <<env, proc, runs, fs, started, done, archiveAtStart, installedAtStart, prevFailed>>

\* The directory a package is configured and built in, below build_dir.
WorkDir(p) ==
    CASE p = "aom" -> <<"aom", "tmp">>
      [] p = "dav1d" -> <<"dav1d", "build">>
      [] p = "openjpeg" -> <<"openjpeg">>
      [] p = "x265" -> <<"x265", "build">>
      [] p = "xvid" -> <<"xvid", "build", "generic">>
      [] OTHER -> <<p>>

\* The inline CMake and Meson blocks name the directory relative to the
\* working directory; build() names it below build_dir.
RelativeChdir == {"aom", "dav1d", "openjpeg", "x265"}

\* The argument of os.chdir before the configure step, resolved.
chdir(p) ==
    IF p \in RelativeChdir THEN cwd \o WorkDir(p) ELSE <<build_dir>> \o WorkDir(p)

\* The directories extract() created in this invocation (for aom and dav1d
\* with the sub-directory the block makes, which needs the same parent).
DirExists(d) == \E p \in buildDirs : d = <<build_dir>> \o WorkDir(p)

\* os.chdir, then ./configure in build(), cmake for aom, openjpeg and x265,
\* meson for dav1d.  os.chdir (os.mkdir for aom and dav1d) raises when the
\* directory is not there.
Configure ==
    /\ pc = "configure"
    /\ IF DirExists(chdir(package))
       THEN /\ cwd' = chdir(package)
            /\ \E ok \in BOOLEAN :
                Exec(<<"configure", package>>, ok, log_group(run(ok, <<"build", blk>>)))
       ELSE /\ pc' = "done" /\ blk' = 0 /\ exitcode' = 1
            /\ UNCHANGED <<cwd, lastCmd, failed>>
    /\ UNCHANGED <<env, environ, runs, fs, started, done,
                   archiveAtStart, installedAtStart, prevFailed>>

\* make, or ninja for dav1d.
Build ==
    /\ pc = "build"
    /\ \E ok \in BOOLEAN :
        Exec(<<"make", package>>, ok, log_group(run(ok, <<"install", blk>>)))
    /\ UNCHANGED <<env, proc, runs, fs, started, done, archiveAtStart, installedAtStart, prevFailed>>

\* The prefix a package is installed into: "--prefix=" + dest_dir in build()
\* and for meson, -DCMAKE_INSTALL_PREFIX=dest_dir in cmake_args.
prefix(p) == dest_dir

\* A plausible slip: a block that does not go back.
BlockEnd_stay(ok) == cwd

\* os.chdir(build_dir), the last statement of build() and of the inline
\* blocks: not reached when a command of the block raised.
BlockEnd(ok) == IF ok THEN <<build_dir>> ELSE cwd

\* make install, or ninja install for dav1d; the block ends after it.
Install ==
    /\ pc = "install"
    /\ \E ok \in BOOLEAN :
        /\ Exec(<<"install", package>>, ok, log_group(run(ok, After(blk))))
        /\ installed' = (IF ok /\ prefix(package) = dest_dir
                         THEN installed \cup {package}
                         ELSE installed)
        /\ done' = (IF ok THEN done \cup {package} ELSE done)
        /\ cwd' = BlockEnd(ok)
    /\ UNCHANGED <<env, environ, runs, srcFile, buildDirs, archive, started,
                   archiveAtStart, installedAtStart, prevFailed>>

\* The licence-relevant options among the configure arguments of a block:
\* the ffmpeg block passes them as literals, whatever the command line.
configure_args(p) ==
    IF p = "ffmpeg"
    THEN {"--enable-gpl", "--enable-libx264", "--enable-libx265", "--enable-libxvid"}
    ELSE {}

(***************************************************************************)
(* Packaging: lines 426-429.                                               *)
(***************************************************************************)
Otool ==
    /\ pc = "otool"
    /\ \E ok \in BOOLEAN :
        Exec(<<"otool", "otool">>, ok, run(ok, <<"tar", 0>>))
    /\ UNCHANGED <<env, proc, runs, fs, started, done, archiveAtStart, installedAtStart, prevFailed>>

\* What tar czvf output_tarball leaves behind.  "ok": zero return, the
\* archive complete.  "error": non-zero return before the file was created.
\* "interrupted": non-zero return, a truncated file.
TarOutcomes == {"ok", "error", "interrupted"}

TarFile(oc) ==
    CASE oc = "ok" -> "complete"
      [] oc = "error" -> "absent"
      [] OTHER -> "corrupt"

Tar ==
    /\ pc = "tar"
    /\ \E oc \in TarOutcomes :
        /\ archive' = TarFile(oc)
        /\ Exec(<<"tar_czvf", "tar">>, oc = "ok", run(oc = "ok", <<"done", 0>>))
    /\ UNCHANGED <<env, proc, runs, srcFile, buildDirs, installed, started, done,
                   archiveAtStart, installedAtStart, prevFailed>>

Next ==
    \/ Invoke
    \/ Yum
    \/ Pip
    \/ Download
    \/ Extract
    \/ Patch
    \/ Sed
    \/ Configure
    \/ Build
    \/ Install
    \/ Otool
    \/ Tar

Spec == Init /\ [][Next]_vars

\* The script under cibuildwheel with a prefix of its own, called with and
\* without further arguments.
InitArgs ==
    /\ system \in Systems
    /\ cibuildwheel = TRUE
    /\ dest_dir = "/tmp/vendor"
    /\ patches = PatchFiles
    /\ args \in CallerArgs
    /\ inherited = EnvMixed
    /\ Start

SpecArgs == InitArgs /\ [][Next]_vars

\* The same, called from each of the environments.
InitEnv ==
    /\ system \in Systems
    /\ cibuildwheel = TRUE
    /\ dest_dir = "/tmp/vendor"
    /\ patches = PatchFiles
    /\ args = << >>
    /\ inherited \in CallerEnvs
    /\ Start

SpecEnv == InitEnv /\ [][Next]_vars


(***************************************************************************)
(* Properties.                                                             *)
(***************************************************************************)
\* The packages the script builds on this system: gettext on Darwin only.
Expected(p) == p # "gettext" \/ system = "Darwin"

ExpectedPackages == {p \in Packages : Expected(p)}

\* The prerequisites the script's comments name for each block ("pip" is
\* the block that installs cmake, meson and ninja); ffmpeg is configured
\* against every library and codec.
requires(p) ==
    CASE p = "xml2" -> {"xz"}
      [] p = "gettext" -> {"unistring", "xml2"}
      [] p = "freetype" -> {"png"}
      [] p = "fontconfig" -> {"freetype", "xml2"}
      [] p = "nettle" -> {"gmp"}
      [] p = "gnutls" -> {"nettle", "unistring"}
      [] p = "ass" -> {"freetype", "fribidi"}
      [] p = "bluray" -> {"fontconfig"}
      [] p = "dav1d" -> {"nasm", "pip"}
      [] p = "vorbis" -> {"ogg"}
      [] p = "theora" -> {"vorbis"}
      [] p = "ffmpeg" -> {Libraries[i] : i \in 1..Len(Libraries)}
                         \cup {Codecs[i] : i \in 1..Len(Codecs)}
      [] OTHER -> {}

\* C1: in every invocation, a package whose block has begun (its first
\* fetch or extract command has run) has all its prerequisites that are
\* built on this system installed by this invocation already.
C1_DependenciesFirst ==
    \A p \in started :
        \A q \in requires(p) : (q = "pip" \/ Expected(q)) => q \in done

\* C1 witness: on Darwin the ffmpeg block has begun, gettext included
\* among the installed prerequisites.
C1_Witness ==
    /\ system = "Darwin"
    /\ "ffmpeg" \in started
    /\ "gettext" \in done
    /\ "theora" \in done

\* C2: an invocation that found the output archive present runs no command
\* and ends with exit status zero.
C2_NoBuildWhenArchiveExists ==
    archiveAtStart # "absent" =>
        /\ lastCmd = NoCmd
        /\ pc = "done" => exitcode = 0

\* C3: the startup of an invocation that finds the output archive present
\* leaves the destination prefix and the build workspace as they were.
C3_NoOpWhenArchiveExists ==
    [][(runs' # runs /\ archive # "absent") =>
            (installed' = installed /\ buildDirs' = buildDirs)]_vars

\* C4: in an invocation that follows a failed one, no configure, build or
\* install command is run for a package that was installed when the
\* invocation started.
C4_InstalledPackagesSkipped ==
    (prevFailed /\ lastCmd[1] \in {"configure", "make", "install"}) =>
        lastCmd[2] \notin installedAtStart

\* C5: once a command has returned non-zero the invocation is over with a
\* non-zero exit status, and it has not created the output archive.
C5_FailStop ==
    failed =>
        /\ pc = "done"
        /\ exitcode = 1
        /\ (archiveAtStart = "absent" => archive = "absent")

\* C6: at most one package block is in progress, and while a package block
\* is in progress every package before it in the build sequence that is
\* built on this system has been installed by this invocation.
C6_OnePackageAtATime ==
    /\ Cardinality(started \ done) <= 1
    /\ \A j \in 1..NPackages :
        BuildSequence[j] \in started \ done =>
            \A i \in 1..(j - 1) :
                Expected(BuildSequence[i]) => BuildSequence[i] \in done

\* C6 witness: the second package is in progress after the first was installed.
C6_Witness ==
    /\ pc = "configure"
    /\ package = "nasm"
    /\ started \ done = {"nasm"}
    /\ "gperf" \in done

\* C7: the archive-creation command is reached, and has run, only with
\* every package built on this system installed by this invocation.
C7_ArchiveAfterAllInstalled ==
    (pc = "tar" \/ lastCmd[1] = "tar_czvf") =>
        /\ ExpectedPackages \subseteq done
        /\ ExpectedPackages \subseteq installed

\* C7 witness: the archive was created, on Darwin (with gettext installed).
C7_Witness ==
    /\ lastCmd[1] = "tar_czvf"
    /\ archive = "complete"
    /\ system = "Darwin"
    /\ "gettext" \in installed

\* C8: an output archive that an invocation finds at its start is the
\* product of an archive-creation command that returned zero.
C8_ArchiveMeansPackaged ==
    archiveAtStart # "absent" => archiveAtStart = "complete"

\* C9: curl is reached exactly when the tarball named by the last segment
\* of the package's url is not in source/, and the files of source/ change
\* only by the download of a file that was not there (neither the startup of
\* an invocation nor any other step removes or replaces one).
C9_DownloadIffAbsent ==
    [][/\ pc' = "download" => srcFile'[tarball(BuildSequence[blk'])] = "absent"
       /\ (pc' = "extract" /\ pc # "download")
            => srcFile'[tarball(BuildSequence[blk'])] # "absent"
       /\ srcFile' # srcFile =>
            /\ pc = "download"
            /\ srcFile[tarball(package)] = "absent"
            /\ \A f \in Tarballs \ {tarball(package)} : srcFile'[f] = srcFile[f]]_vars

\* C9 witness: in a second invocation, extraction of a package begins
\* without a download, on the tarball an earlier invocation fetched.
C9_Witness ==
    /\ runs = 2
    /\ pc = "extract"
    /\ lastCmd # <<"curl", package>>
    /\ srcFile[tarball(package)] = "complete"

\* C10: after a curl command returned non-zero the tarball is not in
\* source/, and the invocation is over.
C10_FailedDownloadLeavesNoFile ==
    (failed /\ lastCmd[1] = "curl") =>
        /\ pc = "done"
        /\ srcFile[tarball(lastCmd[2])] = "absent"


\* The command that comes before the configure command of package p: sed
\* for lame, else the patch when the package has a patch file, else tar xf.
BeforeConfigure(p) ==
    IF p = "lame" THEN "sed" ELSE IF p \in patches THEN "patch" ELSE "tar_xf"

\* C11: the commands of a package run in the order curl (only when the
\* tarball is absent), tar xf, patch (only when the package has a patch
\* file, and then always), configure, make, install, each one right after
\* the zero return of the one before it; curl or tar xf is the package's
\* first command.
C11_SubStepOrder ==
    [][(lastCmd' # lastCmd /\ lastCmd'[2] \in Packages) =>
        LET c == lastCmd'[1]
            p == lastCmd'[2]
            before == IF lastCmd[2] = p THEN lastCmd[1] ELSE "other"
        IN  /\ ~failed
            /\ c = "curl" => (before = "other" /\ srcFile[tarball(p)] = "absent")
            /\ c = "tar_xf" =>
                \/ before = "curl"
                \/ before = "other" /\ srcFile[tarball(p)] # "absent"
            /\ c = "patch" => (before = "tar_xf" /\ p \in patches)
            /\ c = "sed" => before = (IF p \in patches THEN "patch" ELSE "tar_xf")
            /\ c = "configure" => before = BeforeConfigure(p)
            /\ c = "make" => before = "configure"
            /\ c = "install" => before = "make"]_vars

\* C11 witness: ffmpeg, which has a patch file, was downloaded, extracted,
\* patched and configured, and its make step is next.
C11_Witness ==
    /\ pc = "build"
    /\ package = "ffmpeg"
    /\ "ffmpeg" \in patches
    /\ lastCmd = <<"configure", "ffmpeg">>

\* The build-time tools of the script's BUILD TOOLS section.
BuilderOnly == {BuildTools[i] : i \in 1..Len(BuildTools)}

\* C12: no builder-only package is installed into the destination prefix
\* of the shipped libraries, and the prefix the tools are installed into has
\* its bin directory first on PATH while packages are built.
C12_ToolsOutsideDestination ==
    /\ \A p \in BuilderOnly : p \notin installed
    /\ InPackage =>
        \A p \in BuilderOnly :
            /\ "PATH" \in DOMAIN environ
            /\ SubSeq(environ["PATH"], 1, 3) = <<prefix(p), "/", "bin">>

\* The packages the claim names as GPL without an alternative.
GplPackages == {"x264", "x265", "xvid"}

GplDisabled == \E i \in 1..Len(args) : args[i] = "--disable-gpl"

\* C13: with GPL packages disabled, no block of x264, x265 or xvid is begun,
\* and ffmpeg is not configured with the options that need them.
C13_GplGating ==
    GplDisabled =>
        /\ started \cap GplPackages = {}
        /\ lastCmd = <<"configure", "ffmpeg">> => configure_args("ffmpeg") = {}

\* The destination-prefix entry and the separator of each variable.
Entry(n) ==
    CASE n = "CPPFLAGS" -> <<"-I", dest_dir, "/", "include">>
      [] n = "LDFLAGS" -> <<"-L", dest_dir, "/", "lib">>
      [] n = "PATH" -> <<dest_dir, "/", "bin">>
      [] n = "PKG_CONFIG_PATH" -> <<dest_dir, "/", "lib/pkgconfig">>

Separator(n) == IF n \in {"CPPFLAGS", "LDFLAGS"} THEN " " ELSE ":"

\* C14: from the first external tool on, each of CPPFLAGS, LDFLAGS, PATH and
\* PKG_CONFIG_PATH is its entry, then the separator and the inherited value
\* when that was non-empty, and exactly the entry when it was unset or empty.
C14_EnvPrepended ==
    (pc \notin {"idle", "done"} \/ lastCmd # NoCmd) =>
        \A n \in EnvNames :
            /\ n \in DOMAIN environ
            /\ environ[n] =
                IF n \in DOMAIN inherited /\ Len(inherited[n]) > 0
                THEN Entry(n) \o <<Separator(n)>> \o inherited[n]
                ELSE Entry(n)

C14_Witness ==
    /\ lastCmd = <<"pip", "pip">>
    /\ inherited = EnvMixed
    /\ environ["CPPFLAGS"] = <<"-I", "/tmp/vendor", "/", "include">>
    /\ environ["LDFLAGS"] = <<"-L", "/tmp/vendor", "/", "lib">>
    /\ environ["PATH"] = <<"/tmp/vendor", "/", "bin", ":", "/usr/bin", ":", "/bin">>

\* The package names passed to extract are pairwise distinct.
DistinctNames == \A i, j \in 1..NPackages : i # j => BuildSequence[i] # BuildSequence[j]

\* C15: whenever extract is about to create a package's working directory,
\* that directory does not exist, in first runs and in re-runs alike, and
\* the package names passed to extract are pairwise distinct.
C15_ExtractTargetFresh ==
    /\ pc = "extract" => package \notin buildDirs
    /\ DistinctNames

C15_Witness ==
    /\ pc = "extract"
    /\ prevFailed
    /\ package = "gperf"
    /\ "gperf" \in installedAtStart
    /\ "gperf" \notin buildDirs

\* C16: at the start of every package block and at each of its steps before
\* the block enters its own directory, and after every block that completed,
\* the working directory is the build workspace.
C16_CwdIsWorkspace ==
    pc \in {"yum", "pip", "download", "extract", "patch", "sed", "configure",
            "otool", "tar"} => cwd = <<build_dir>>

C16_Witness ==
    /\ pc = "configure"
    /\ package = "dav1d"
    /\ {"aom", "bluray"} \subseteq done
    /\ cwd = <<build_dir>>

\* C17: an output archive that exists when an invocation starts is the same
\* file, untouched, throughout that invocation, whatever the destination
\* prefix; the archive-creation step runs only when none was found.
C17_ExistingArchiveKept ==
    archiveAtStart # "absent" =>
        /\ archive = archiveAtStart
        /\ pc # "tar"
        /\ lastCmd # <<"tar_czvf", "tar">>

====
